---- MODULE Spec2Model ----
(***************************************************************************)
(* The transition-based part-of-speech tagging state of                    *)
(* python/elit/component/pos_tagger.py: POSLexicon, POSState (reset, gold, *)
(* eval, process, terminate, features) and POSModel.x.                     *)
(*                                                                         *)
(* Python lists are 0-indexed: graph.nodes is a function over 0..N-1 with  *)
(* the root at 0; a Python list that the code builds (golds, the feature   *)
(* vectors) is a TLA+ sequence read through At0.                           *)
(***************************************************************************)
EXTENDS Integers, Sequences, FiniteSets, TLC

\* graph .. stats: the program's state. ret: what the last call returned or
\* raised. lastOp, calls, orig, save_gold: history of the run (the last call
\* and its arguments, the process calls completed since construction or the
\* last reset, the resets made since the last other call, the graph as the
\* reader delivered it and the save_gold argument at construction).
\* sum_len: the sentence lengths of the gold-carrying eval calls, summed.
\* gold_states: the gold-capturing states constructed on the graph so far.
\* stage: how far main has come (main, lexicon, model, train). w2v_dim: the
\* row width the classifier of POSModel is built for.
\* states: two POSState objects over their own graphs, with node.pos_scores as
\* a reference (the lexicon's pos_zeros array or an array of the caller).
\* accs: the accumulator of each. lex_pos_zeros: the contents of the one
\* pos_zeros array of the lexicon they share. alone, alone_pos_zeros: the same
\* calls made on each state with a lexicon of its own. traces: the score
\* arguments of the process calls and the resets made on each. who: the state
\* the last call was made on.
VARIABLES graph, golds, idx_curr, reset_count, lex, feature_context,
          stats, ret, lastOp, calls, resets_in_row, orig, save_gold,
          sum_len, gold_states, stage, w2v_dim,
          states, accs, alone, lex_pos_zeros, alone_pos_zeros, traces, who

vars == <<graph, golds, idx_curr, reset_count, lex, feature_context,
          stats, ret, lastOp, calls, resets_in_row, orig, save_gold,
          sum_len, gold_states, stage, w2v_dim,
          states, accs, alone, lex_pos_zeros, alone_pos_zeros, traces, who>>

\* two tagging states that share one lexicon
two == <<states, accs, alone, lex_pos_zeros, alone_pos_zeros, traces, who>>

\* what the calls on a tagging state leave alone
ext == <<gold_states, stage, w2v_dim, two>>

hist == <<calls, orig, save_gold, ext>>

\* ------------------------------------------------------------------ bounds
MaxNodes == 3
MaxNodesX == 4
MaxResets == 2
MaxTotal == 4
MaxGoldStates == 2
OutputSize == 2
W2vDim == 2
F2vDim == 1
A2vDim == 1

\* ------------------------------------------------------------------ values
None == "None"
Labels == {"DET", "NOUN"}
NoScores == <<>>
NaN == <<0, 0>>

At0(list, i) == list[i + 1]

Zeros(n) == [k \in 1..n |-> 0]
OneHot(n, j) == [k \in 1..n |-> IF k = j THEN 1 ELSE 0]

\* np.zeros((output_size,)) of POSLexicon.__init__
pos_zeros == Zeros(OutputSize)

\* a score vector a classifier hands to process: width = number of tags
ScoreSet == {OneHot(OutputSize, 1)}

RECURSIVE GCD(_, _)
GCD(a, b) == IF b = 0 THEN a ELSE GCD(b, a % b)

\* stats[1] / stats[0] on a numpy array: a float, nan for 0/0
Div(a, b) == IF b = 0 THEN NaN ELSE <<a \div GCD(a, b), b \div GCD(a, b)>>

\* ------------------------------------------------------------------ graph
\* len(self.graph.nodes): the root included
len_nodes == Cardinality(DOMAIN graph)

\* `for node in self.graph`: the token nodes, the root skipped
GraphIter(g) == 1..(Cardinality(DOMAIN g) - 1)

\* len(self.graph): the number of token nodes
GraphLen(g) == Cardinality(DOMAIN g) - 1

\* A graph as the corpus reader delivers it: labels from the corpus, no scores
NewGraph(n, lab) ==
    [i \in 0..(n - 1) |->
        [pos |-> IF i = 0 THEN None ELSE lab[i], pos_scores |-> NoScores]]

\* mutant: the snapshot taken over graph.nodes, the root included
ConstructGolds_with_root(g, sg) ==
    IF sg
    THEN [isNone |-> FALSE,
          list |-> [k \in 1..Cardinality(DOMAIN g) |-> g[k - 1].pos]]
    ELSE [isNone |-> TRUE, list |-> <<>>]

\* POSState.__init__: golds = [node.set_pos(None) ...] if save_gold else None,
\* then every node's pos_scores = lexicon.pos_zeros
ConstructGolds(g, sg) ==
    IF sg
    THEN [isNone |-> FALSE, list |-> [k \in 1..GraphLen(g) |-> g[k].pos]]
    ELSE [isNone |-> TRUE, list |-> <<>>]

ConstructGraph(g, sg) ==
    [i \in DOMAIN g |->
        IF i \in GraphIter(g)
        THEN [pos |-> IF sg THEN None ELSE g[i].pos,
              pos_scores |-> pos_zeros]
        ELSE g[i]]

\* ------------------------------------------------------------------ state
\* mutant: the cursor compared with > instead of >=
terminate_gt == idx_curr > len_nodes

\* POSState.terminate
terminate == idx_curr >= len_nodes

ACTIVE == idx_curr < len_nodes

\* no pair of states in the runs of one state
NoTwo ==
    /\ states = <<>>
    /\ accs = <<>>
    /\ alone = <<>>
    /\ lex_pos_zeros = pos_zeros
    /\ alone_pos_zeros = <<>>
    /\ traces = <<>>
    /\ who = 0

NoOp == [op |-> "init", label |-> None, scores |-> NoScores]
NoRet == [kind |-> "none", val |-> 0]

ProvSets == SUBSET {"w2v", "f2v", "a2v"}
Contexts == {<<0>>, <<-1, 0, 1>>, <<-2, -1, 0, 1, 2>>}

LabelAssignments(n) == [1..(n - 1) -> Labels \cup {None}]

Init ==
    \E n \in 1..MaxNodes, sg \in BOOLEAN :
      \E lab \in LabelAssignments(n) :
        /\ orig = NewGraph(n, lab)
        /\ save_gold = sg
        /\ gold_states = (IF sg THEN 1 ELSE 0)
        /\ calls = 0
        /\ stage = "train"
        /\ NoTwo
        /\ w2v_dim = W2vDim
        /\ sum_len = 0
        /\ resets_in_row = 0
        /\ graph = ConstructGraph(NewGraph(n, lab), sg)
        /\ golds = ConstructGolds(NewGraph(n, lab), sg)
        /\ idx_curr = 1
        /\ reset_count = 0
        /\ lex = {}
        /\ feature_context = <<-1, 0, 1>>
        /\ stats \in {[i \in 0..1 |-> 0], [i \in 0..1 |-> 2 - i]}
        /\ ret = NoRet
        /\ lastOp = NoOp

\* mutant: reset clears the labels and leaves the score vectors
reset_keep_scores ==
    /\ reset_count < MaxResets
    /\ graph' = [i \in DOMAIN graph |->
                    IF i \in GraphIter(graph)
                    THEN [pos |-> None, pos_scores |-> graph[i].pos_scores]
                    ELSE graph[i]]
    /\ idx_curr' = 1
    /\ reset_count' = reset_count + 1
    /\ ret' = NoRet
    /\ lastOp' = [op |-> "reset", label |-> None, scores |-> NoScores]
    /\ UNCHANGED sum_len
    /\ resets_in_row' = resets_in_row + 1
    /\ calls' = 0
    /\ UNCHANGED <<golds, lex, feature_context, stats, orig, save_gold, ext>>

\* mutant: reset assigns the incremented counter to the cursor
reset_cursor_from_count ==
    /\ reset_count < MaxResets
    /\ graph' = [i \in DOMAIN graph |->
                    IF i \in GraphIter(graph)
                    THEN [pos |-> None, pos_scores |-> pos_zeros]
                    ELSE graph[i]]
    /\ idx_curr' = reset_count + 1
    /\ reset_count' = reset_count + 1
    /\ ret' = NoRet
    /\ lastOp' = [op |-> "reset", label |-> None, scores |-> NoScores]
    /\ UNCHANGED sum_len
    /\ resets_in_row' = resets_in_row + 1
    /\ calls' = 0
    /\ UNCHANGED <<golds, lex, feature_context, stats, orig, save_gold, ext>>

\* POSState.reset
reset ==
    /\ reset_count < MaxResets
    /\ graph' = [i \in DOMAIN graph |->
                    IF i \in GraphIter(graph)
                    THEN [pos |-> None, pos_scores |-> pos_zeros]
                    ELSE graph[i]]
    /\ idx_curr' = 1
    /\ reset_count' = reset_count + 1
    /\ ret' = NoRet
    /\ lastOp' = [op |-> "reset", label |-> None, scores |-> NoScores]
    /\ UNCHANGED sum_len
    /\ resets_in_row' = resets_in_row + 1
    /\ calls' = 0
    /\ UNCHANGED <<golds, lex, feature_context, stats, orig, save_gold, ext>>

\* mutant: process stores the scores argument even when it is omitted
process_stores_none(label, scores) ==
    /\ idx_curr \in DOMAIN graph
    /\ graph' = [graph EXCEPT ![idx_curr] =
                    [pos |-> label, pos_scores |-> scores]]
    /\ idx_curr' = idx_curr + 1
    /\ ret' = NoRet
    /\ lastOp' = [op |-> "process", label |-> label, scores |-> scores]
    /\ UNCHANGED sum_len
    /\ resets_in_row' = 0
    /\ calls' = calls + 1
    /\ UNCHANGED <<golds, reset_count, lex, feature_context, stats, orig,
                   save_gold, ext>>

\* mutant: the snapshot shares the node's label, so process overwrites it
process_overwrites_gold(label, scores) ==
    /\ idx_curr \in DOMAIN graph
    /\ graph' = [graph EXCEPT ![idx_curr] =
                    [pos |-> label,
                     pos_scores |-> IF scores # NoScores THEN scores
                                    ELSE graph[idx_curr].pos_scores]]
    /\ golds' = IF golds.isNone THEN golds
                ELSE [golds EXCEPT !.list[idx_curr] = label]
    /\ idx_curr' = idx_curr + 1
    /\ ret' = NoRet
    /\ lastOp' = [op |-> "process", label |-> label, scores |-> scores]
    /\ UNCHANGED sum_len
    /\ resets_in_row' = 0
    /\ calls' = calls + 1
    /\ UNCHANGED <<reset_count, lex, feature_context, stats, orig, save_gold, ext>>

\* mutant: the cursor moves two positions
process_advances_twice(label, scores) ==
    /\ idx_curr \in DOMAIN graph
    /\ graph' = [graph EXCEPT ![idx_curr] =
                    [pos |-> label,
                     pos_scores |-> IF scores # NoScores THEN scores
                                    ELSE graph[idx_curr].pos_scores]]
    /\ idx_curr' = idx_curr + 2
    /\ ret' = NoRet
    /\ lastOp' = [op |-> "process", label |-> label, scores |-> scores]
    /\ UNCHANGED sum_len
    /\ resets_in_row' = 0
    /\ calls' = calls + 1
    /\ UNCHANGED <<golds, reset_count, lex, feature_context, stats, orig,
                   save_gold, ext>>

\* POSState.process on a node that exists
process(label, scores) ==
    /\ idx_curr \in DOMAIN graph
    /\ graph' = [graph EXCEPT ![idx_curr] =
                    [pos |-> label,
                     pos_scores |-> IF scores # NoScores THEN scores
                                    ELSE graph[idx_curr].pos_scores]]
    /\ idx_curr' = idx_curr + 1
    /\ ret' = NoRet
    /\ lastOp' = [op |-> "process", label |-> label, scores |-> scores]
    /\ UNCHANGED sum_len
    /\ resets_in_row' = 0
    /\ calls' = calls + 1
    /\ UNCHANGED <<golds, reset_count, lex, feature_context, stats, orig,
                   save_gold, ext>>

\* mutant: the cursor is advanced before the node lookup raises
processIndexError_advances(label, scores) ==
    /\ idx_curr \notin DOMAIN graph
    /\ idx_curr' = idx_curr + 1
    /\ ret' = [kind |-> "raise", val |-> "IndexError"]
    /\ lastOp' = [op |-> "process", label |-> label, scores |-> scores]
    /\ UNCHANGED sum_len
    /\ resets_in_row' = 0
    /\ UNCHANGED <<graph, golds, reset_count, lex, feature_context,
                   stats, hist>>

\* POSState.process when graph.nodes[idx_curr] is out of range: IndexError
\* at the first statement, nothing assigned
processIndexError(label, scores) ==
    /\ idx_curr \notin DOMAIN graph
    /\ ret' = [kind |-> "raise", val |-> "IndexError"]
    /\ lastOp' = [op |-> "process", label |-> label, scores |-> scores]
    /\ UNCHANGED sum_len
    /\ resets_in_row' = 0
    /\ UNCHANGED <<graph, golds, idx_curr, reset_count, lex, feature_context,
                   stats, hist>>

\* ------------------------------------------------------------------ oracle
\* POSState.gold: self.golds[self.idx_curr - 1] if self.golds else None
\* (an empty list is false, like None)
goldRaises ==
    /\ golds.list # <<>>
    /\ (idx_curr - 1) \notin 0..(Len(golds.list) - 1)

\* mutant: the snapshot read one position early (index -1 is the last entry)
gold_prev ==
    IF golds.list # <<>>
    THEN (IF idx_curr - 2 >= 0 THEN At0(golds.list, idx_curr - 2)
          ELSE At0(golds.list, Len(golds.list) - 1))
    ELSE None

gold == IF golds.list # <<>> THEN At0(golds.list, idx_curr - 1) ELSE None

goldQuery ==
    /\ ret' = IF goldRaises THEN [kind |-> "raise", val |-> "IndexError"]
                            ELSE [kind |-> "gold", val |-> gold]
    /\ lastOp' = [op |-> "gold", label |-> None, scores |-> NoScores]
    /\ UNCHANGED sum_len
    /\ resets_in_row' = 0
    /\ UNCHANGED <<graph, golds, idx_curr, reset_count, lex, feature_context,
                   stats, hist>>

terminateQuery ==
    /\ ret' = [kind |-> "terminate", val |-> terminate]
    /\ lastOp' = [op |-> "terminate", label |-> None, scores |-> NoScores]
    /\ UNCHANGED sum_len
    /\ resets_in_row' = 0
    /\ UNCHANGED <<graph, golds, idx_curr, reset_count, lex, feature_context,
                   stats, hist>>

\* the nodes eval counts: enumerate(self.graph) pairs golds[i] with token i+1
Matches == {i \in 0..(GraphLen(graph) - 1) : graph[i + 1].pos = At0(golds.list, i)}

\* mutant: the total is added before the golds test
evalNoGold_adds_total ==
    /\ golds.isNone
    /\ stats' = [stats EXCEPT ![0] = stats[0] + GraphLen(graph)]
    /\ ret' = [kind |-> "eval", val |-> Div(0, 1)]
    /\ lastOp' = [op |-> "eval", label |-> None, scores |-> NoScores]
    /\ UNCHANGED sum_len
    /\ resets_in_row' = 0
    /\ UNCHANGED <<graph, golds, idx_curr, reset_count, lex, feature_context,
                   hist>>

\* POSState.eval, golds is None: return 0
evalNoGold ==
    /\ golds.isNone
    /\ ret' = [kind |-> "eval", val |-> Div(0, 1)]
    /\ lastOp' = [op |-> "eval", label |-> None, scores |-> NoScores]
    /\ UNCHANGED sum_len
    /\ resets_in_row' = 0
    /\ UNCHANGED <<graph, golds, idx_curr, reset_count, lex, feature_context,
                   stats, hist>>

\* mutant: the total grows by len(self.graph.nodes), the root counted
evalGold_counts_root ==
    /\ ~golds.isNone
    /\ stats[0] + GraphLen(graph) <= MaxTotal
    /\ stats' = [i \in 0..1 |-> IF i = 0 THEN stats[0] + len_nodes
                                         ELSE stats[1] + Cardinality(Matches)]
    /\ ret' = [kind |-> "eval", val |-> Div(stats'[1], stats'[0])]
    /\ lastOp' = [op |-> "eval", label |-> None, scores |-> NoScores]
    /\ sum_len' = sum_len + GraphLen(graph)
    /\ resets_in_row' = 0
    /\ UNCHANGED <<graph, golds, idx_curr, reset_count, lex, feature_context,
                   hist>>

\* POSState.eval with golds
evalGold ==
    /\ ~golds.isNone
    /\ stats[0] + GraphLen(graph) <= MaxTotal
    /\ stats' = [i \in 0..1 |-> IF i = 0 THEN stats[0] + GraphLen(graph)
                                         ELSE stats[1] + Cardinality(Matches)]
    /\ ret' = [kind |-> "eval", val |-> Div(stats'[1], stats'[0])]
    /\ lastOp' = [op |-> "eval", label |-> None, scores |-> NoScores]
    /\ sum_len' = sum_len + GraphLen(graph)
    /\ resets_in_row' = 0
    /\ UNCHANGED <<graph, golds, idx_curr, reset_count, lex, feature_context,
                   hist>>

\* ------------------------------------------------------------------ features
NoNode == 0 - 1

\* NLPState.get_node(index, window): the token node at index + window, or None
get_node(index, window) ==
    IF 1 <= index + window /\ index + window < len_nodes
    THEN index + window ELSE NoNode

Dim(p) == CASE p = "w2v" -> W2vDim [] p = "f2v" -> F2vDim [] p = "a2v" -> A2vDim

Code(p) == CASE p = "w2v" -> 10 [] p = "f2v" -> 20 [] p = "a2v" -> 30

\* NLPEmbedding.get(node): the provider's vector for the node's word, zeros
\* of the provider's width for None
EmbGet(p, node) ==
    IF node = NoNode THEN Zeros(Dim(p))
    ELSE [k \in 1..Dim(p) |-> Code(p) + node]

\* mutant: no score slot for a node that does not exist
features_truncates(node) ==
    (IF node # NoNode THEN <<graph[node].pos_scores>> ELSE <<>>)
    \o (IF "w2v" \in lex THEN <<EmbGet("w2v", node)>> ELSE <<>>)
    \o (IF "f2v" \in lex THEN <<EmbGet("f2v", node)>> ELSE <<>>)
    \o (IF "a2v" \in lex THEN <<EmbGet("a2v", node)>> ELSE <<>>)

\* mutant: a node that does not exist reads the last node's scores
features_wraps(node) ==
    <<IF node # NoNode THEN graph[node].pos_scores
      ELSE graph[len_nodes - 1].pos_scores>>
    \o (IF "w2v" \in lex THEN <<EmbGet("w2v", node)>> ELSE <<>>)
    \o (IF "f2v" \in lex THEN <<EmbGet("f2v", node)>> ELSE <<>>)
    \o (IF "a2v" \in lex THEN <<EmbGet("a2v", node)>> ELSE <<>>)

\* POSState.features
features(node) ==
    <<IF node # NoNode THEN graph[node].pos_scores ELSE pos_zeros>>
    \o (IF "w2v" \in lex THEN <<EmbGet("w2v", node)>> ELSE <<>>)
    \o (IF "f2v" \in lex THEN <<EmbGet("f2v", node)>> ELSE <<>>)
    \o (IF "a2v" \in lex THEN <<EmbGet("a2v", node)>> ELSE <<>>)

\* np.concatenate(vectors, axis=0)
RECURSIVE Concatenate(_)
Concatenate(vectors) ==
    IF vectors = <<>> THEN <<>>
    ELSE Head(vectors) \o Concatenate(Tail(vectors))

\* the list comprehension of POSModel.x: windows outermost, in order
RECURSIVE Vectors(_)
Vectors(context) ==
    IF context = <<>> THEN <<>>
    ELSE features(get_node(idx_curr, Head(context))) \o Vectors(Tail(context))

\* POSModel.x
x == Concatenate(Vectors(feature_context))

xQuery ==
    /\ ret' = [kind |-> "x", val |-> x]
    /\ lastOp' = [op |-> "x", label |-> None, scores |-> NoScores]
    /\ UNCHANGED sum_len
    /\ resets_in_row' = 0
    /\ UNCHANGED <<graph, golds, idx_curr, reset_count, lex, feature_context,
                   stats, hist>>

\* ------------------------------------------------------------------ specs
Next ==
    \/ reset
    \/ \E label \in Labels, scores \in ScoreSet \cup {NoScores} :
          process(label, scores)
    \/ \E label \in Labels, scores \in ScoreSet \cup {NoScores} :
          processIndexError(label, scores)
    \/ goldQuery
    \/ terminateQuery
    \/ evalNoGold
    \/ evalGold

Spec == Init /\ [][Next]_vars

\* Feature assembly under every lexicon configuration and offset tuple
InitX ==
    \E n \in 1..MaxNodesX :
        /\ orig = NewGraph(n, [i \in 1..(n - 1) |-> None])
        /\ save_gold = FALSE
        /\ gold_states = 0
        /\ calls = 0
        /\ stage = "train"
        /\ NoTwo
        /\ w2v_dim = W2vDim
        /\ sum_len = 0
        /\ resets_in_row = 0
        /\ graph = ConstructGraph(orig, FALSE)
        /\ golds = ConstructGolds(orig, FALSE)
        /\ idx_curr = 1
        /\ reset_count = 0
        /\ lex \in ProvSets
        /\ feature_context \in Contexts
        /\ stats = [i \in 0..1 |-> 0]
        /\ ret = NoRet
        /\ lastOp = NoOp

NextX ==
    \/ reset
    \/ \E scores \in ScoreSet \cup {NoScores} : process("DET", scores)
    \/ \E scores \in ScoreSet \cup {NoScores} : processIndexError("DET", scores)
    \/ xQuery

SpecX == InitX /\ [][NextX]_vars

\* ------------------------------------------------------------------ passes
\* POSState(graph, lexicon, save_gold=sg) on the graph as the earlier passes
\* left it: a new tagging state for another pass over the same sentence
NewState(sg) ==
    /\ sg => gold_states < MaxGoldStates
    /\ graph' = ConstructGraph(graph, sg)
    /\ golds' = ConstructGolds(graph, sg)
    /\ idx_curr' = 1
    /\ reset_count' = 0
    /\ save_gold' = sg
    /\ gold_states' = gold_states + (IF sg THEN 1 ELSE 0)
    /\ calls' = 0
    /\ resets_in_row' = 0
    /\ ret' = NoRet
    /\ lastOp' = [op |-> "POSState", label |-> None, scores |-> NoScores]
    /\ UNCHANGED <<lex, feature_context, stats, sum_len, orig, stage, w2v_dim,
                   two>>

\* the reader's next graph and POSState(graph, lexicon, save_gold=sg) on it;
\* the caller keeps its accumulator
NewSentence(n, lab, sg) ==
    /\ orig' = NewGraph(n, lab)
    /\ graph' = ConstructGraph(NewGraph(n, lab), sg)
    /\ golds' = ConstructGolds(NewGraph(n, lab), sg)
    /\ idx_curr' = 1
    /\ reset_count' = 0
    /\ save_gold' = sg
    /\ gold_states' = (IF sg THEN 1 ELSE 0)
    /\ calls' = 0
    /\ resets_in_row' = 0
    /\ ret' = NoRet
    /\ lastOp' = [op |-> "POSState", label |-> None, scores |-> NoScores]
    /\ UNCHANGED <<lex, feature_context, stats, sum_len, stage, w2v_dim,
                   two>>

\* the labels of the corpus sentence with n nodes
CorpusLabels(n) == [i \in 1..(n - 1) |-> IF i % 2 = 1 THEN "DET" ELSE "NOUN"]

InitPass ==
    /\ Init
    /\ stats = [i \in 0..1 |-> 0]
    /\ orig = NewGraph(len_nodes, CorpusLabels(len_nodes))

NextPass ==
    \/ \E sg \in BOOLEAN : NewState(sg)
    \/ \E n \in 1..MaxNodes, sg \in BOOLEAN :
          NewSentence(n, CorpusLabels(n), sg)
    \/ reset
    \/ \E label \in Labels : process(label, NoScores)
    \/ evalNoGold
    \/ evalGold

SpecPass == InitPass /\ [][NextPass]_vars

\* ------------------------------------------------------------------ main
\* the row widths a POSModel may be built for
ModelDims == {W2vDim, W2vDim + 1}

\* main before the lexicon: the graphs are read, no tagging state exists
InitMain ==
    \E n \in 1..MaxNodesX :
        /\ stage = "main"
        /\ NoTwo
        /\ orig = NewGraph(n, [i \in 1..(n - 1) |-> None])
        /\ graph = orig
        /\ golds = ConstructGolds(orig, FALSE)
        /\ idx_curr = 0
        /\ reset_count = 0
        /\ save_gold = FALSE
        /\ gold_states = 0
        /\ calls = 0
        /\ resets_in_row = 0
        /\ sum_len = 0
        /\ lex = {}
        /\ feature_context = <<>>
        /\ w2v_dim = 0
        /\ stats = [i \in 0..1 |-> 0]
        /\ ret = NoRet
        /\ lastOp = NoOp

\* POSLexicon.__init__: keeps the providers it is given and allocates
\* pos_zeros; no width is compared
NewLexicon(provs) ==
    /\ stage = "main"
    /\ stage' = "lexicon"
    /\ lex' = provs
    /\ ret' = NoRet
    /\ lastOp' = [op |-> "POSLexicon", label |-> None, scores |-> NoScores]
    /\ UNCHANGED <<graph, golds, idx_curr, reset_count, feature_context, stats,
                   calls, resets_in_row, orig, save_gold, sum_len, gold_states,
                   w2v_dim, two>>

\* POSModel.__init__: builds the classifier for rows of w2v_dim and keeps
\* feature_context; the lexicon is not an argument
NewModel(context, dim) ==
    /\ stage = "lexicon"
    /\ stage' = "model"
    /\ feature_context' = context
    /\ w2v_dim' = dim
    /\ ret' = NoRet
    /\ lastOp' = [op |-> "POSModel", label |-> None, scores |-> NoScores]
    /\ UNCHANGED <<graph, golds, idx_curr, reset_count, lex, stats,
                   calls, resets_in_row, orig, save_gold, sum_len, gold_states,
                   two>>

\* model.train(...): the first tagging state, POSState(graph, lexicon)
Train ==
    /\ stage = "model"
    /\ stage' = "train"
    /\ graph' = ConstructGraph(graph, FALSE)
    /\ golds' = ConstructGolds(graph, FALSE)
    /\ idx_curr' = 1
    /\ reset_count' = 0
    /\ ret' = NoRet
    /\ lastOp' = [op |-> "POSState", label |-> None, scores |-> NoScores]
    /\ UNCHANGED <<lex, feature_context, stats, calls, resets_in_row, orig,
                   save_gold, sum_len, gold_states, w2v_dim, two>>

NextMain ==
    \/ \E provs \in ProvSets : NewLexicon(provs)
    \/ \E context \in Contexts, dim \in ModelDims : NewModel(context, dim)
    \/ Train
    \/ stage = "train" /\ xQuery
    \/ stage = "train" /\ \E scores \in ScoreSet \cup {NoScores} :
                              process("DET", scores)

SpecMain == InitMain /\ [][NextMain]_vars

\* ------------------------------------------------------------- two states
MaxNodesTwo == 3
MaxTrace == 2
MaxTotalTwo == 2

\* node.pos_scores is a reference: to the lexicon's pos_zeros array, which
\* every state built on that lexicon shares, or to an array of the caller
SharedZeros == [shared |-> TRUE, val |-> <<>>]
Own(scores) == [shared |-> FALSE, val |-> scores]
Deref(r, z) == IF r.shared THEN z ELSE r.val

\* the mark of a reset in a trace
ResetMark == <<0 - 1>>

\* A graph as the corpus reader delivers it, every token labelled lab
ReaderGraph(n, lab) ==
    [i \in 0..(n - 1) |->
        [pos |-> IF i = 0 THEN None ELSE lab, pos_scores |-> Own(NoScores)]]

\* POSState.__init__ on graph g: node.pos_scores = lexicon.pos_zeros
State_init(g, sg) ==
    [nodes |-> [i \in DOMAIN g |->
                   IF i \in GraphIter(g)
                   THEN [pos |-> IF sg THEN None ELSE g[i].pos,
                         pos_scores |-> SharedZeros]
                   ELSE g[i]],
     golds |-> ConstructGolds(g, sg),
     idx_curr |-> 1,
     reset_count |-> 0]

\* POSState.reset
State_reset(s) ==
    [s EXCEPT !.nodes = [i \in DOMAIN s.nodes |->
                            IF i \in GraphIter(s.nodes)
                            THEN [pos |-> None, pos_scores |-> SharedZeros]
                            ELSE s.nodes[i]],
              !.idx_curr = 1,
              !.reset_count = @ + 1]

\* mutant: the scores are copied into the array the node refers to
State_process_in_place(s, z, label, scores) ==
    [state |-> [s EXCEPT !.nodes[s.idx_curr] =
                   [pos |-> label,
                    pos_scores |-> IF scores # NoScores /\ ~@.pos_scores.shared
                                   THEN Own(scores) ELSE @.pos_scores],
                         !.idx_curr = @ + 1],
     zeros |-> IF scores # NoScores /\ s.nodes[s.idx_curr].pos_scores.shared
               THEN scores ELSE z]

\* POSState.process on state s, z the contents of the lexicon's pos_zeros:
\* node.pos_scores = scores rebinds the node's reference
State_process(s, z, label, scores) ==
    [state |-> [s EXCEPT !.nodes[s.idx_curr] =
                   [pos |-> label,
                    pos_scores |-> IF scores # NoScores
                                   THEN Own(scores) ELSE @.pos_scores],
                         !.idx_curr = @ + 1],
     zeros |-> z]

\* NLPState.get_node on state s
State_get_node(s, window) ==
    IF 1 <= s.idx_curr + window
       /\ s.idx_curr + window < Cardinality(DOMAIN s.nodes)
    THEN s.idx_curr + window ELSE NoNode

\* mutant: the score slot of a labelled node is made from its label
State_features_from_label(s, z, node) ==
    <<IF node = NoNode THEN z
      ELSE IF s.nodes[node].pos # None THEN OneHot(OutputSize, OutputSize)
      ELSE Deref(s.nodes[node].pos_scores, z)>>
    \o (IF "w2v" \in lex THEN <<EmbGet("w2v", node)>> ELSE <<>>)
    \o (IF "f2v" \in lex THEN <<EmbGet("f2v", node)>> ELSE <<>>)
    \o (IF "a2v" \in lex THEN <<EmbGet("a2v", node)>> ELSE <<>>)

\* POSState.features on state s
State_features(s, z, node) ==
    <<IF node # NoNode THEN Deref(s.nodes[node].pos_scores, z) ELSE z>>
    \o (IF "w2v" \in lex THEN <<EmbGet("w2v", node)>> ELSE <<>>)
    \o (IF "f2v" \in lex THEN <<EmbGet("f2v", node)>> ELSE <<>>)
    \o (IF "a2v" \in lex THEN <<EmbGet("a2v", node)>> ELSE <<>>)

RECURSIVE State_vectors(_, _, _)
State_vectors(s, z, context) ==
    IF context = <<>> THEN <<>>
    ELSE State_features(s, z, State_get_node(s, Head(context)))
         \o State_vectors(s, z, Tail(context))

\* POSModel.x on state s
Model_x(s, z) == Concatenate(State_vectors(s, z, feature_context))

\* POSState.eval on state s with accumulator st: the accumulator afterwards
State_eval(s, st) ==
    IF s.golds.isNone THEN st
    ELSE [i \in 0..1 |->
            IF i = 0 THEN st[0] + GraphLen(s.nodes)
            ELSE st[1] + Cardinality({j \in 0..(GraphLen(s.nodes) - 1) :
                            s.nodes[j + 1].pos = At0(s.golds.list, j)})]

\* the one-state variables, not used by the pair
single == <<graph, golds, idx_curr, reset_count, stats, calls, resets_in_row,
            orig, save_gold, sum_len, gold_states, stage, w2v_dim>>

\* one lexicon, two sentences of the same tokens per length; the first state
\* is built with save_gold, the second without
InitTwo ==
    \E n1 \in 1..MaxNodesTwo, n2 \in 1..MaxNodesTwo :
        /\ states = <<State_init(ReaderGraph(n1, "DET"), TRUE),
                      State_init(ReaderGraph(n2, "DET"), FALSE)>>
        /\ alone = states
        /\ accs = [k \in 1..2 |-> [i \in 0..1 |-> 0]]
        /\ lex_pos_zeros = pos_zeros
        /\ alone_pos_zeros = [k \in 1..2 |-> pos_zeros]
        /\ traces = [k \in 1..2 |-> <<>>]
        /\ who = 0
        /\ lex = {"w2v"}
        /\ feature_context = <<-1, 0, 1>>
        /\ stage = "two"
        /\ w2v_dim = W2vDim
        /\ orig = NewGraph(1, <<>>)
        /\ graph = ConstructGraph(orig, FALSE)
        /\ golds = ConstructGolds(orig, FALSE)
        /\ idx_curr = 1
        /\ reset_count = 0
        /\ save_gold = FALSE
        /\ gold_states = 0
        /\ calls = 0
        /\ resets_in_row = 0
        /\ sum_len = 0
        /\ stats = [i \in 0..1 |-> 0]
        /\ ret = NoRet
        /\ lastOp = NoOp

TwoProcess(k, label, scores) ==
    /\ states[k].idx_curr \in DOMAIN states[k].nodes
    /\ Len(traces[k]) < MaxTrace
    /\ LET r == State_process(states[k], lex_pos_zeros, label, scores)
           a == State_process(alone[k], alone_pos_zeros[k], label, scores)
       IN /\ states' = [states EXCEPT ![k] = r.state]
          /\ lex_pos_zeros' = r.zeros
          /\ alone' = [alone EXCEPT ![k] = a.state]
          /\ alone_pos_zeros' = [alone_pos_zeros EXCEPT ![k] = a.zeros]
    /\ traces' = [traces EXCEPT ![k] = Append(@, scores)]
    /\ who' = k
    /\ ret' = NoRet
    /\ lastOp' = [op |-> "process", label |-> label, scores |-> scores]
    /\ UNCHANGED <<accs, lex, feature_context, single>>

TwoReset(k) ==
    /\ Len(traces[k]) < MaxTrace
    /\ states' = [states EXCEPT ![k] = State_reset(@)]
    /\ alone' = [alone EXCEPT ![k] = State_reset(@)]
    /\ traces' = [traces EXCEPT ![k] = Append(@, ResetMark)]
    /\ who' = k
    /\ ret' = NoRet
    /\ lastOp' = [op |-> "reset", label |-> None, scores |-> NoScores]
    /\ UNCHANGED <<accs, lex_pos_zeros, alone_pos_zeros, lex, feature_context,
                   single>>

TwoEval(k) ==
    /\ accs[k][0] + GraphLen(states[k].nodes) <= MaxTotalTwo
    /\ accs' = [accs EXCEPT ![k] = State_eval(states[k], @)]
    /\ who' = k
    /\ ret' = [kind |-> "eval",
               val |-> IF states[k].golds.isNone THEN Div(0, 1)
                       ELSE Div(accs'[k][1], accs'[k][0])]
    /\ lastOp' = [op |-> "eval", label |-> None, scores |-> NoScores]
    /\ UNCHANGED <<states, alone, lex_pos_zeros, alone_pos_zeros, traces, lex,
                   feature_context, single>>

TwoX(k) ==
    /\ who' = k
    /\ ret' = [kind |-> "x", val |-> Model_x(states[k], lex_pos_zeros)]
    /\ lastOp' = [op |-> "x", label |-> None, scores |-> NoScores]
    /\ UNCHANGED <<states, accs, alone, lex_pos_zeros, alone_pos_zeros, traces,
                   lex, feature_context, single>>

NextTwo ==
    \E k \in 1..2 :
        \/ \E scores \in ScoreSet \cup {NoScores} :
              TwoProcess(k, "NOUN", scores)
        \/ TwoReset(k)
        \/ TwoEval(k)
        \/ TwoX(k)

SpecTwo == InitTwo /\ [][NextTwo]_vars

\* ------------------------------------------------------------------ claims
N == len_nodes

\* the token positions of the sentence, the root excluded
Tokens == 1..(N - 1)

\* C1: from a fresh or freshly reset state, terminate is false after each of
\* the first k < N-1 calls to process and true after the (N-1)-th; terminate
\* is true iff idx_curr >= N; the terminate query returns that value.
C1_TerminateAfterNMinus1Calls ==
    /\ calls < N - 1 => ~terminate
    /\ calls = N - 1 => terminate
    /\ terminate <=> idx_curr >= N
    /\ lastOp.op = "terminate" =>
          /\ ret.kind = "terminate"
          /\ ret.val = (calls >= N - 1)

C1_Witness ==
    /\ lastOp.op = "terminate"
    /\ ret.val = TRUE
    /\ N = 3
    /\ calls = 2
    /\ reset_count = 1

\* C2: in an ACTIVE state process(label, scores) labels exactly the node at
\* idx_curr, stores scores there when given and keeps the node's vector when
\* omitted, advances idx_curr by 1, and leaves every other node, the gold
\* snapshot and the reset counter as they were.
C2_ProcessEffect ==
    [][(ACTIVE /\ lastOp'.op = "process") =>
          /\ ret'.kind # "raise"
          /\ DOMAIN graph' = DOMAIN graph
          /\ graph'[idx_curr].pos = lastOp'.label
          /\ graph'[idx_curr].pos_scores =
                IF lastOp'.scores # NoScores THEN lastOp'.scores
                ELSE graph[idx_curr].pos_scores
          /\ \A i \in DOMAIN graph \ {idx_curr} : graph'[i] = graph[i]
          /\ idx_curr' = idx_curr + 1
          /\ golds' = golds
          /\ reset_count' = reset_count]_vars

C2_Witness ==
    /\ lastOp.op = "process"
    /\ lastOp.scores = NoScores
    /\ N = 3
    /\ idx_curr = 3
    /\ graph[2].pos = lastOp.label
    /\ graph[2].pos_scores = pos_zeros
    /\ graph[1].pos_scores # pos_zeros
    /\ graph[1].pos # lastOp.label

\* C3: from any reachable state reset() leaves idx_curr = 1, every token
\* node's label unset and score vector the lexicon's zero placeholder, and
\* the reset counter one greater.
C3_ResetEffect ==
    [][lastOp'.op = "reset" =>
          /\ idx_curr' = 1
          /\ DOMAIN graph' = DOMAIN graph
          /\ \A i \in Tokens :
                /\ graph'[i].pos = None
                /\ graph'[i].pos_scores = pos_zeros
          /\ reset_count' = reset_count + 1]_vars

C3_Witness ==
    /\ lastOp.op = "reset"
    /\ reset_count = 2
    /\ N = 3
    /\ stats[0] = 4
    /\ \A i \in Tokens : graph[i].pos = None /\ graph[i].pos_scores = pos_zeros

\* C4 as stated: the state after reset(); reset() is the state after a single
\* reset(), the reset counter included.
C4_ResetTwiceSameState ==
    [][resets_in_row' >= 2 =>
          <<graph, golds, idx_curr, reset_count>>' =
          <<graph, golds, idx_curr, reset_count>>]_vars

\* C4 as amended: a second reset() in a row leaves the cursor, every node's
\* label and score vector and the gold snapshot as the first reset() left
\* them; only the reset counter differs, by one.
C4_ResetTwiceSameButCounter ==
    [][resets_in_row' >= 2 =>
          /\ <<graph, golds, idx_curr>>' = <<graph, golds, idx_curr>>
          /\ reset_count' = reset_count + 1]_vars

C4_Witness ==
    /\ resets_in_row = 2
    /\ lastOp.op = "reset"
    /\ N = 3
    /\ stats[0] = 4
    /\ idx_curr = 1

\* the widths of the configured providers, summed
ProviderWidths ==
    (IF "w2v" \in lex THEN W2vDim ELSE 0)
    + (IF "f2v" \in lex THEN F2vDim ELSE 0)
    + (IF "a2v" \in lex THEN A2vDim ELSE 0)

GroupWidth == OutputSize + ProviderWidths

\* C5: for every offset tuple, provider set and cursor position, x(state) has
\* length (number of offsets) * (score width + sum of the provider widths).
C5_FeatureLengthConstant ==
    /\ Len(x) = Len(feature_context) * GroupWidth
    /\ lastOp.op = "x" =>
          /\ ret.kind = "x"
          /\ Len(ret.val) = Len(feature_context) * GroupWidth

C5_Witness ==
    /\ lastOp.op = "x"
    /\ N = 3
    /\ idx_curr = N - 1
    /\ feature_context = <<-2, -1, 0, 1, 2>>
    /\ lex = {"w2v", "f2v", "a2v"}
    /\ Len(ret.val) = 5 * (OutputSize + W2vDim + F2vDim + A2vDim)
    /\ graph[1].pos_scores # pos_zeros

\* the group the claim expects for offset o: score slot, then word2vec,
\* fastText, ambiguity class, with the zero fallback outside the sentence
ExpectedGroup(o) ==
    LET p == idx_curr + o
        inside == p \in Tokens
        node == IF inside THEN p ELSE NoNode
    IN  (IF inside THEN graph[p].pos_scores ELSE pos_zeros)
        \o (IF "w2v" \in lex THEN EmbGet("w2v", node) ELSE <<>>)
        \o (IF "f2v" \in lex THEN EmbGet("f2v", node) ELSE <<>>)
        \o (IF "a2v" \in lex THEN EmbGet("a2v", node) ELSE <<>>)

\* C6: x(state) is the concatenation, in the order of the offsets, of one
\* group per offset (score slot, word2vec, fastText, ambiguity class); for an
\* offset outside the sentence the score slot is the zero fallback vector, and
\* assembly neither raises, nor shortens the vector, nor reads another node.
C6_FeatureGroupsInOrder ==
    lastOp.op = "x" =>
        /\ ret.kind = "x"
        /\ Len(ret.val) = Len(feature_context) * GroupWidth
        /\ \A k \in 1..Len(feature_context) :
              SubSeq(ret.val, (k - 1) * GroupWidth + 1, k * GroupWidth)
                 = ExpectedGroup(feature_context[k])

C6_Witness ==
    /\ lastOp.op = "x"
    /\ N = 4
    /\ idx_curr = 3
    /\ feature_context = <<-1, 0, 1>>
    /\ lex = {"w2v"}
    /\ graph[2].pos_scores # pos_zeros
    /\ ret.val = graph[2].pos_scores \o EmbGet("w2v", 2)
                  \o pos_zeros \o EmbGet("w2v", 3)
                  \o pos_zeros \o Zeros(W2vDim)

\* C7: in every ACTIVE state of a state constructed with gold capture the gold
\* query returns the gold label of the node at the cursor, the one the next
\* process call labels; without gold capture it returns None; the query
\* changes neither the cursor, nor a node's label or scores, nor the snapshot.
C7_GoldIsCursorNodesLabel ==
    [][lastOp'.op = "gold" =>
          /\ UNCHANGED <<graph, golds, idx_curr, reset_count, stats>>
          /\ (save_gold /\ ACTIVE) =>
                ret' = [kind |-> "gold", val |-> orig[idx_curr].pos]
          /\ ~save_gold => ret' = [kind |-> "gold", val |-> None]]_vars

C7_Witness ==
    /\ lastOp.op = "gold"
    /\ save_gold
    /\ N = 3
    /\ idx_curr = 2
    /\ ret.val = orig[2].pos
    /\ orig[2].pos = "NOUN"
    /\ orig[1].pos = "DET"
    /\ graph[1].pos = "NOUN"

\* C8: the gold snapshot never changes: after any sequence of process, reset
\* and eval calls every entry equals the label the graph carried at
\* construction, so the gold query answers the same in every pass.
C8_GoldSnapshotImmutable ==
    /\ golds.isNone <=> ~save_gold
    /\ save_gold =>
          /\ Len(golds.list) = N - 1
          /\ \A i \in Tokens : At0(golds.list, i - 1) = orig[i].pos
    /\ (save_gold /\ ACTIVE /\ lastOp.op = "gold") =>
          ret = [kind |-> "gold", val |-> orig[idx_curr].pos]

C8_Witness ==
    /\ save_gold
    /\ reset_count = 2
    /\ stats[0] = 2
    /\ N = 3
    /\ idx_curr = 2
    /\ orig[1].pos = "DET"
    /\ graph[1].pos = "NOUN"
    /\ At0(golds.list, 0) = "DET"
    /\ lastOp.op = "gold"
    /\ ret.val = "DET"
    /\ orig[2].pos = "DET"

\* the nodes whose current label equals the label captured for them
MatchCount == Cardinality({i \in Tokens : graph[i].pos = orig[i].pos})

AllMatch == \A i \in Tokens : graph[i].pos = orig[i].pos

NoMatch == \A i \in Tokens : graph[i].pos # orig[i].pos

Fresh == stats[0] = 0 /\ stats[1] = 0

\* q is the float correct / total (nan for 0 / 0)
IsQuotient(q, correct, total) ==
    IF total = 0 THEN q = NaN
    ELSE q[2] > 0 /\ q[1] * total = q[2] * correct

One == <<1, 1>>
Zero == <<0, 1>>

\* C9 as stated: with gold captured, eval adds the number of token nodes to
\* the total and the number of nodes whose label equals their gold label to
\* the correct count and returns correct/total; after a complete pass over T
\* tokens with every label equal to gold, a fresh accumulator becomes (T, T)
\* and eval returns 1.0; with no matching label it returns 0.0.
C9_EvalAccumulates ==
    [][(lastOp'.op = "eval" /\ save_gold) =>
          /\ stats'[0] = stats[0] + (N - 1)
          /\ stats'[1] = stats[1] + MatchCount
          /\ ret'.kind = "eval"
          /\ IsQuotient(ret'.val, stats'[1], stats'[0])
          /\ (Fresh /\ terminate /\ AllMatch) =>
                /\ stats'[0] = N - 1
                /\ stats'[1] = N - 1
                /\ ret'.val = One
          /\ (Fresh /\ terminate /\ NoMatch) => ret'.val = Zero]_vars

\* C9 as amended: the same, the returned 1.0 and 0.0 for sentences with at
\* least one token (T >= 1); with no token a fresh accumulator stays (0, 0)
\* and the quotient is 0/0, nan.
C9_EvalAccumulatesNonEmpty ==
    [][(lastOp'.op = "eval" /\ save_gold) =>
          /\ stats'[0] = stats[0] + (N - 1)
          /\ stats'[1] = stats[1] + MatchCount
          /\ ret'.kind = "eval"
          /\ IsQuotient(ret'.val, stats'[1], stats'[0])
          /\ (Fresh /\ terminate /\ AllMatch) =>
                /\ stats'[0] = N - 1
                /\ stats'[1] = N - 1
                /\ ret'.val = IF N - 1 >= 1 THEN One ELSE NaN
          /\ (Fresh /\ terminate /\ NoMatch /\ N - 1 >= 1) =>
                ret'.val = Zero]_vars

C9_Witness ==
    /\ lastOp.op = "eval"
    /\ save_gold
    /\ N = 3
    /\ terminate
    /\ AllMatch
    /\ stats[0] = 2
    /\ stats[1] = 2
    /\ ret.val = One

\* C10: without gold capture eval returns 0 and leaves both slots of the
\* accumulator, the cursor and every node's label and scores unchanged,
\* whatever the accumulator held.
C10_EvalWithoutGold ==
    [][(lastOp'.op = "eval" /\ ~save_gold) =>
          /\ ret' = [kind |-> "eval", val |-> Zero]
          /\ UNCHANGED <<stats, idx_curr, graph, golds, reset_count>>]_vars

C10_Witness ==
    /\ lastOp.op = "eval"
    /\ ~save_gold
    /\ ret.val = Zero
    /\ stats[0] = 2
    /\ stats[1] = 1
    /\ N = 3
    /\ idx_curr = 2
    /\ graph[1].pos_scores # pos_zeros

IndexError == [kind |-> "raise", val |-> "IndexError"]

\* C11: process on a TERMINATED state (idx_curr >= N) is rejected with an
\* out-of-range error and leaves the state unchanged: the cursor is not
\* advanced and no node's label or score vector is modified.
C11_ProcessOnTerminatedRejected ==
    [][(terminate /\ lastOp'.op = "process") =>
          /\ ret' = IndexError
          /\ UNCHANGED <<graph, golds, idx_curr, reset_count, stats>>]_vars

C11_Witness ==
    /\ lastOp.op = "process"
    /\ ret = IndexError
    /\ N = 3
    /\ idx_curr = 3
    /\ graph[2].pos = "NOUN"
    /\ lastOp.label = "DET"
    /\ lastOp.scores # NoScores
    /\ graph[2].pos_scores = pos_zeros

\* C15: in every reachable state, process calls attempted on a TERMINATED
\* state included, 1 <= idx_curr <= N.
C15_CursorInRange ==
    /\ 1 <= idx_curr
    /\ idx_curr <= N

C15_Witness ==
    /\ idx_curr = N
    /\ N = 3
    /\ lastOp.op = "process"
    /\ ret = IndexError
    /\ reset_count = 1
    /\ stats[0] = 4

\* C16: every token node at a position >= idx_curr holds the lexicon's zero
\* placeholder score vector; only nodes before the cursor can hold scores.
C16_ZeroScoresFromCursorOn ==
    \A i \in Tokens : i >= idx_curr => graph[i].pos_scores = pos_zeros

C16_Witness ==
    /\ N = 3
    /\ idx_curr = 2
    /\ graph[1].pos_scores # pos_zeros
    /\ graph[2].pos_scores = pos_zeros
    /\ reset_count = 1
    /\ lastOp.op = "process"

\* C17: immediately after construction, with or without gold capture and
\* whatever labels the nodes carried, every token node's label is unset and
\* its score vector is the zero placeholder of width = number of tags.
C17_FreshStateCleared ==
    lastOp.op = "init" =>
        \A i \in Tokens :
            /\ graph[i].pos = None
            /\ graph[i].pos_scores = Zeros(OutputSize)

\* idx_curr - 1 is an index of the gold snapshot
GoldIndexValid == (idx_curr - 1) \in 0..(Len(golds.list) - 1)

\* C19 as stated: with gold captured, for every cursor value from 1 to the
\* TERMINATED value N, idx_curr - 1 is a valid index of the snapshot and the
\* gold query returns a label and never fails.
C19_GoldDefinedUpToN ==
    save_gold =>
        /\ GoldIndexValid
        /\ lastOp.op = "gold" => ret.kind = "gold"

\* C19 as amended: idx_curr - 1 is a valid index, and gold returns the label,
\* for the cursor values 1..N-1 of ACTIVE states; at the TERMINATED value N
\* the index is out of range, and gold raises IndexError, or returns None
\* when the sentence has no token and the snapshot is empty.
C19_GoldDefinedWhileActive ==
    save_gold =>
        /\ ACTIVE =>
              /\ GoldIndexValid
              /\ lastOp.op = "gold" => ret.kind = "gold"
        /\ terminate =>
              /\ ~GoldIndexValid
              /\ lastOp.op = "gold" =>
                    ret = IF N >= 2 THEN IndexError
                          ELSE [kind |-> "gold", val |-> None]

C19_Witness ==
    /\ save_gold
    /\ lastOp.op = "gold"
    /\ N = 3
    /\ idx_curr = 3
    /\ ret = IndexError
    /\ graph[2].pos = "NOUN"

\* C18: a gold-capturing state constructed for a later pass over a graph on
\* which an earlier gold-capturing state was constructed captures the graph's
\* original gold labels, the snapshot of the first state.
C18_LaterStateCapturesOriginalGold ==
    (lastOp.op = "POSState" /\ save_gold /\ gold_states >= 2) =>
        /\ Len(golds.list) = N - 1
        /\ \A i \in Tokens : At0(golds.list, i - 1) = orig[i].pos

\* C20: from an accumulator (0, 0), after any sequence of eval calls on any
\* states, 0 <= correct <= total, and total is the sum of the sentence
\* lengths of the gold-carrying eval calls made.
C20_AccumulatorBounds ==
    /\ 0 <= stats[1]
    /\ stats[1] <= stats[0]
    /\ stats[0] = sum_len

C20_Witness ==
    /\ lastOp.op = "eval"
    /\ save_gold
    /\ N = 3
    /\ stats[0] = 3
    /\ stats[1] = 2
    /\ sum_len = 3
    /\ gold_states = 2

\* a configured provider whose vector width is not the row width the
\* classifier was built for
WidthMismatch == "w2v" \in lex /\ Dim("w2v") # w2v_dim

ConfigurationError == [kind |-> "raise", val |-> "ConfigurationError"]

\* C12: a mismatch between a provider's vector width and the width the
\* classifier expects is reported as a configuration error when the lexicon
\* and the model are constructed, before any tagging state is created; no run
\* reaches feature assembly with mismatched widths.
C12_WidthMismatchReported ==
    /\ (stage = "model" /\ WidthMismatch) => ret = ConfigurationError
    /\ (stage = "train" /\ lastOp.op \in {"POSState", "process", "x"}) =>
          ~WidthMismatch

\* what a caller can see of state s: cursor, labels, score vectors, features
View(s, z) ==
    [idx_curr |-> s.idx_curr,
     pos |-> [i \in DOMAIN s.nodes |-> s.nodes[i].pos],
     pos_scores |-> [i \in DOMAIN s.nodes |-> Deref(s.nodes[i].pos_scores, z)],
     x |-> Model_x(s, z)]

SameTokens == DOMAIN states[1].nodes = DOMAIN states[2].nodes

\* C13: a state built with gold capture and one built without, over the same
\* tokens and driven by the same score arguments and resets, give the same
\* x at every step, whatever the labels and the gold snapshot.
C13_FeatureIdentical ==
    (stage = "two" /\ SameTokens /\ traces[1] = traces[2]) =>
        Model_x(states[1], lex_pos_zeros) = Model_x(states[2], lex_pos_zeros)

\* both states one call into their passes with scores stored, the labels of
\* the next token and the gold snapshots differing
C13_Witness ==
    /\ stage = "two" /\ SameTokens /\ traces[1] = traces[2]
    /\ Len(traces[1]) = 1 /\ traces[1][1] \in ScoreSet
    /\ states[1].idx_curr = 2 /\ states[2].idx_curr = 2
    /\ 2 \in DOMAIN states[1].nodes
    /\ states[1].nodes[2].pos # states[2].nodes[2].pos
    /\ ~states[1].golds.isNone /\ states[2].golds.isNone
    /\ lastOp.op = "x"

\* C14: under every interleaving of process, reset, eval and x on two states
\* that share a lexicon, each state's cursor, labels, score vectors and
\* features are those of the same calls made on it alone, and the lexicon's
\* pos_zeros keeps its zeros.
C14_NoInterference ==
    stage = "two" =>
        /\ \A k \in 1..2 :
              View(states[k], lex_pos_zeros) = View(alone[k], alone_pos_zeros[k])
        /\ lex_pos_zeros = pos_zeros

\* state 1 was given scores, state 2 then moved on with a node that still
\* refers to pos_zeros, and its features were assembled
C14_Witness ==
    /\ stage = "two"
    /\ Len(traces[1]) >= 1 /\ traces[1][1] \in ScoreSet
    /\ Len(traces[2]) >= 1 /\ traces[2][1] = NoScores
    /\ states[2].nodes[1].pos_scores.shared
    /\ who = 2 /\ lastOp.op = "x"

====
